---- MODULE Spec2Model ----
(***************************************************************************)
(* The think/act control loop of the tool-calling agent (ToolCallAgent,    *)
(* Manus) and the session-scoped output manager of the file writer         *)
(* (FileSaver).  Texts (paths, raw argument text, observations) are        *)
(* modelled as strings and handled character by character, as the Python   *)
(* code handles them.                                                      *)
(***************************************************************************)
EXTENDS Integers, Sequences, FiniteSets, TLC

VARIABLES
    clock,                      \* wall clock, in ticks of 1/TicksPerSecond s
    current_session_timestamp,  \* FileSaver._current_session_timestamp
    resets,                     \* number of reset_session() calls so far
    files,                      \* log of the files written, oldest first
    state,                      \* per agent: AgentState
    pc,                         \* per agent: position of run() in its loop
    current_step,               \* per agent: iterations started
    tool_choices,               \* per agent: "none" | "auto" | "required"
    tool_calls,                 \* per agent: self.tool_calls
    messages,                   \* per agent: the conversation history
    act_result,                 \* per agent: what the last act() gave back
    think_result,               \* per agent: how the last think() ended
    invoked,                    \* per agent: tool executions, oldest first
    last_call                   \* the last direct call and what it gave back

vars == <<clock, current_session_timestamp, resets, files, state, pc,
          current_step, tool_choices, tool_calls, messages, act_result,
          think_result, invoked, last_call>>

(***************************************************************************)
(* Bounds of the model.                                                    *)
(***************************************************************************)
MaxClock == 2
MaxSteps == 2
MaxCalls == 2
MaxFiles == 2
MaxResets == 2

\* Ticks of the model clock per second of strftime's "%S" resolution.
TicksPerSecond == 2

(***************************************************************************)
(* Python string operations.                                               *)
(***************************************************************************)
Ch(s, i) == SubSeq(s, i, i)

Drop(s, n) == SubSeq(s, n + 1, Len(s))

startswith(s, prefix) ==
    Len(prefix) <= Len(s) /\ SubSeq(s, 1, Len(prefix)) = prefix

endswith(s, suffix) ==
    Len(suffix) <= Len(s) /\ SubSeq(s, Len(s) - Len(suffix) + 1, Len(s)) = suffix

\* s.find(sub, from): the first index >= from where sub occurs, 0 when none.
RECURSIVE find(_, _, _)
find(s, sub, from) ==
    IF from + Len(sub) - 1 > Len(s) THEN 0
    ELSE IF SubSeq(s, from, from + Len(sub) - 1) = sub THEN from
    ELSE find(s, sub, from + 1)

\* s.rfind(sub): the last index where sub occurs, 0 when none.
RECURSIVE rfindFrom(_, _, _)
rfindFrom(s, sub, from) ==
    IF from < 1 THEN 0
    ELSE IF SubSeq(s, from, from + Len(sub) - 1) = sub THEN from
    ELSE rfindFrom(s, sub, from - 1)

rfind(s, sub) == rfindFrom(s, sub, Len(s) - Len(sub) + 1)

contains(s, sub) == find(s, sub, 1) # 0

Whitespace == {" ", "\t", "\n", "\r"}

\* not s.strip()
RECURSIVE isblank(_)
isblank(s) ==
    IF Len(s) = 0 THEN TRUE
    ELSE Ch(s, 1) \in Whitespace /\ isblank(Drop(s, 1))

UpperLetters == "ABCDEFGHIJKLMNOPQRSTUVWXYZ"
LowerLetters == "abcdefghijklmnopqrstuvwxyz"

UpperSet == {"A", "B", "C", "D", "E", "F", "G", "H", "I",
             "J", "K", "L", "M", "N", "O", "P", "Q", "R",
             "S", "T", "U", "V", "W", "X", "Y", "Z"}

lower_char(c) == IF c \in UpperSet THEN Ch(LowerLetters, find(UpperLetters, c, 1)) ELSE c

\* s.lower()
RECURSIVE lower(_)
lower(s) == IF Len(s) = 0 THEN "" ELSE lower_char(Ch(s, 1)) \o lower(Drop(s, 1))

(***************************************************************************)
(* os.path (posixpath).                                                    *)
(***************************************************************************)
isabs(p) == startswith(p, "/")

basename(p) == Drop(p, rfind(p, "/"))

join(a, b) ==
    IF startswith(b, "/") THEN b
    ELSE IF a = "" \/ endswith(a, "/") THEN a \o b
    ELSE a \o "/" \o b

\* os.path.splitext(p)[1]: from the last dot, unless only dots precede it.
RECURSIVE onlyDots(_)
onlyDots(s) == IF Len(s) = 0 THEN TRUE ELSE Ch(s, 1) = "." /\ onlyDots(Drop(s, 1))

splitext_ext(p) ==
    LET name == basename(p)
        dot  == rfind(name, ".")
    IN  IF dot = 0 \/ onlyDots(SubSeq(name, 1, dot - 1)) THEN ""
        ELSE Drop(name, dot - 1)

(***************************************************************************)
(* FileSaver: the session-scoped output manager and the file writer.       *)
(***************************************************************************)
\* The value None of _current_session_timestamp.
None == "None"

\* datetime.now().strftime("%Y-%m-%d_%H-%M-%S"): the time to the second.
strftime(now) == ToString(now \div TicksPerSecond)

\* FileSaver.reset_session()
reset_session(ts) == None

\* A marker that is taken anew at every call.
fresh_timestamp(ts, now) == strftime(now)

\* FileSaver.get_session_folder(output_dir): the marker afterwards and
\* the directory returned.
session_timestamp(ts, now) == IF ts = None THEN strftime(now) ELSE ts

get_session_folder(ts, now, output_dir) ==
    [ts  |-> session_timestamp(ts, now),
     dir |-> join(output_dir, "result_" \o session_timestamp(ts, now))]

\* A generator that has no content to offer.
no_default_content(file_path) == ""

\* FileSaver.generate_default_content(file_path).  The two backquotes of the
\* .js template are written as apostrophes.
generate_default_content(file_path) ==
    LET filename  == basename(file_path)
        extension == lower(splitext_ext(filename))
    IN  CASE extension = ".md"   -> "# " \o filename \o "\n\nDefault content for " \o filename \o "\n"
          [] extension = ".txt"  -> "Default content for " \o filename \o "\n"
          [] extension = ".json" -> "{}"
          [] extension = ".html" -> "<!DOCTYPE html>\n<html>\n<head>\n    <title>" \o filename
                                    \o "</title>\n</head>\n<body>\n    <h1>Generated Content</h1>\n"
                                    \o "    <p>This is auto-generated content for " \o filename
                                    \o ".</p>\n</body>\n</html>"
          [] extension = ".py"   -> "# " \o filename \o "\n# Auto-generated Python script\n\n"
                                    \o "def main():\n    print(\"Hello from " \o filename
                                    \o "!\")\n\nif __name__ == \"__main__\":\n    main()\n"
          [] extension = ".css"  -> "/* Auto-generated CSS */\nbody {\n    font-family: Arial, sans-serif;\n"
                                    \o "    margin: 0;\n    padding: 20px;\n}\n"
          [] extension = ".js"   -> "// Auto-generated JavaScript\nconsole.log('Script loaded!');\n\n"
                                    \o "function greet(name) {\n    return 'Hello, ${name}!';\n}\n"
          [] OTHER               -> "Default content for " \o filename

\* A keyword-argument mapping: a function from parameter names to strings.
Has(args, k) == k \in DOMAIN args

Get(args, k, default) == IF Has(args, k) THEN args[k] ELSE default

FileSaverParams == {"content", "file_path", "mode", "output_dir"}

\* A path from which every leading occurrence of the prefix is stripped.
RECURSIVE strip_every_prefix(_, _)
strip_every_prefix(file_path, output_dir) ==
    IF isabs(file_path)
    THEN IF contains(file_path, "/") THEN basename(file_path) ELSE file_path
    ELSE IF startswith(file_path, output_dir \o "/")
         THEN strip_every_prefix(Drop(file_path, Len(output_dir \o "/")), output_dir)
         ELSE file_path

\* A path that is never taken for an absolute one.
prefix_strip_only(file_path, output_dir) ==
    IF startswith(file_path, output_dir \o "/")
    THEN Drop(file_path, Len(output_dir \o "/"))
    ELSE file_path

\* Lines 167-183 of execute: the requested path made relative to the
\* session folder.  (The test for a backslash at line 171 is left out: an
\* absolute POSIX path starts with "/", so the test for "/" decides.)
relative_file_path(file_path, output_dir) ==
    IF isabs(file_path)
    THEN IF contains(file_path, "/")
         THEN basename(file_path)
         ELSE file_path
    ELSE IF startswith(file_path, output_dir \o "/")
         THEN Drop(file_path, Len(output_dir \o "/"))
         ELSE file_path

\* Line 187 of execute.
resolve_final_path(timestamped_output_dir, file_path, output_dir) ==
    join(timestamped_output_dir, relative_file_path(file_path, output_dir))

\* open(final_path, mode) fails on a path that names a directory.
names_directory(final_path) == basename(final_path) \in {"", ".", ".."}

\* Lines 189-201 of execute: the directories are made and the file is
\* written.  io_fault: makedirs, open or write raises.  Gives the result
\* string, the marker afterwards and the files written (none or one).
write_file(content, mode, folder, final_path, io_fault) ==
    IF io_fault \/ names_directory(final_path)
    THEN [result |-> "Error saving file: I/O fault", ts |-> folder.ts, written |-> <<>>]
    ELSE [result |-> "Content successfully saved to " \o final_path,
          ts |-> folder.ts,
          written |-> <<[path |-> final_path, dir |-> folder.dir,
                         mode |-> mode, content |-> content]>>]

\* Lines 163-198 of execute: the try block, given the session folder.
save_file(content, file_path, mode, output_dir, folder, io_fault) ==
    write_file(content, mode, folder,
               resolve_final_path(folder.dir, file_path, output_dir), io_fault)

\* An execute that takes the session folder before it validates.
execute_marker_first(content, args, ts, now, io_fault) ==
    IF ~Has(args, "file_path") \/ isblank(args["file_path"])
    THEN [result |-> "Error: Missing or invalid 'file_path' parameter. File path must be a non-empty string.",
          ts |-> get_session_folder(ts, now, Get(args, "output_dir", "output")).ts,
          written |-> <<>>]
    ELSE IF Get(args, "mode", "w") \notin {"w", "a"}
    THEN [result |-> "Error: Invalid mode '" \o args["mode"]
                     \o "'. Mode must be 'w' (write) or 'a' (append).",
          ts |-> get_session_folder(ts, now, Get(args, "output_dir", "output")).ts,
          written |-> <<>>]
    ELSE save_file(content, args["file_path"], Get(args, "mode", "w"),
                   Get(args, "output_dir", "output"),
                   get_session_folder(ts, now, Get(args, "output_dir", "output")),
                   io_fault)

\* Lines 148-201 of execute, for content that is a non-empty string.
execute_checked(content, args, ts, now, io_fault) ==
    IF ~Has(args, "file_path") \/ isblank(args["file_path"])
    THEN [result |-> "Error: Missing or invalid 'file_path' parameter. File path must be a non-empty string.",
          ts |-> ts, written |-> <<>>]
    ELSE IF Get(args, "mode", "w") \notin {"w", "a"}
    THEN [result |-> "Error: Invalid mode '" \o args["mode"]
                     \o "'. Mode must be 'w' (write) or 'a' (append).",
          ts |-> ts, written |-> <<>>]
    ELSE save_file(content, args["file_path"], Get(args, "mode", "w"),
                   Get(args, "output_dir", "output"),
                   get_session_folder(ts, now, Get(args, "output_dir", "output")),
                   io_fault)

\* Line 144 of execute: the warning put before the result of the call
\* that writes the generated content.
with_warning(file_path, inner) ==
    [inner EXCEPT !.result =
        "Warning: No content provided. Using auto-generated content for "
        \o file_path \o ".\n" \o inner.result]

\* FileSaver.execute(**args)
execute(args, ts, now, io_fault) ==
    IF ~Has(args, "content") \/ args["content"] = ""
    THEN IF Has(args, "file_path") /\ args["file_path"] # ""
         THEN with_warning(args["file_path"],
                  execute_checked(generate_default_content(args["file_path"]),
                                  args, ts, now, io_fault))
         ELSE [result |-> "Error: Missing or invalid 'content' parameter. Content must be a string.",
               ts |-> ts, written |-> <<>>]
    ELSE execute_checked(args["content"], args, ts, now, io_fault)

(***************************************************************************)
(* json.loads and the regular expressions of _fix_malformed_json.  The     *)
(* grammar covered is the one the argument texts of the model use: an      *)
(* object whose members are strings, or a bare number.                     *)
(***************************************************************************)
Quote == "\""

Digits == {"0", "1", "2", "3", "4", "5", "6", "7", "8", "9"}

ControlChars == {"\t", "\n", "\r"}

\* The first index >= i that holds no whitespace (Len(s) + 1 when none).
RECURSIVE skip_ws(_, _)
skip_ws(s, i) ==
    IF i <= Len(s) /\ Ch(s, i) \in Whitespace THEN skip_ws(s, i + 1) ELSE i

RECURSIVE skip_digits(_, _)
skip_digits(s, i) ==
    IF i <= Len(s) /\ Ch(s, i) \in Digits THEN skip_digits(s, i + 1) ELSE i

RECURSIVE noneIn(_, _)
noneIn(s, chars) ==
    IF Len(s) = 0 THEN TRUE ELSE Ch(s, 1) \notin chars /\ noneIn(Drop(s, 1), chars)

\* The index of the quote that closes the string opened at index i, 0 when
\* index i holds no quote or the string is not closed.
closing_quote(s, i) ==
    IF i <= Len(s) /\ Ch(s, i) = Quote THEN find(s, Quote, i + 1) ELSE 0

\* A JSON string starting at the quote at index i: its value and the index
\* after its closing quote.  A raw control character makes it invalid.
json_string_to(s, i, close) ==
    IF close = 0 \/ ~noneIn(SubSeq(s, i + 1, close - 1), ControlChars)
    THEN [ok |-> FALSE, value |-> "", next |-> i]
    ELSE [ok |-> TRUE, value |-> SubSeq(s, i + 1, close - 1), next |-> close + 1]

json_string(s, i) == json_string_to(s, i, closing_quote(s, i))

NoMembers == [ok |-> FALSE, dict |-> <<>>, next |-> 0]

\* The members of an object from index i (the start of a key) on; acc holds
\* the members read so far.  A repeated key keeps its last value.
RECURSIVE json_members(_, _, _)

members_next(s, dict, after) ==
    IF after > Len(s) THEN NoMembers
    ELSE IF Ch(s, after) = "}" THEN [ok |-> TRUE, dict |-> dict, next |-> after + 1]
    ELSE IF Ch(s, after) = "," THEN json_members(s, skip_ws(s, after + 1), dict)
    ELSE NoMembers

members_value(s, acc, key, val) ==
    IF ~val.ok THEN NoMembers
    ELSE members_next(s, (key.value :> val.value) @@ acc, skip_ws(s, val.next))

members_colon(s, acc, key, colon) ==
    IF colon > Len(s) \/ Ch(s, colon) # ":" THEN NoMembers
    ELSE members_value(s, acc, key, json_string(s, skip_ws(s, colon + 1)))

members_key(s, acc, key) ==
    IF ~key.ok THEN NoMembers ELSE members_colon(s, acc, key, skip_ws(s, key.next))

json_members(s, i, acc) == members_key(s, acc, json_string(s, i))

EmptyDict == <<>>

\* An object whose opening brace is just before index i.
json_object(s, i) ==
    IF i <= Len(s) /\ Ch(s, i) = "}"
    THEN [ok |-> TRUE, dict |-> EmptyDict, next |-> i + 1]
    ELSE json_members(s, i, EmptyDict)

\* Nothing but whitespace may follow the value.
loads_object(s, obj) ==
    [ok |-> obj.ok /\ skip_ws(s, obj.next) > Len(s), isdict |-> TRUE,
     dict |-> IF obj.ok THEN obj.dict ELSE EmptyDict]

loads_from(s, start) ==
    IF start > Len(s) THEN [ok |-> FALSE, isdict |-> FALSE, dict |-> EmptyDict]
    ELSE IF Ch(s, start) = "{" THEN loads_object(s, json_object(s, skip_ws(s, start + 1)))
    ELSE IF Ch(s, start) \in Digits
    THEN [ok |-> skip_ws(s, skip_digits(s, start)) > Len(s), isdict |-> FALSE,
          dict |-> EmptyDict]
    ELSE [ok |-> FALSE, isdict |-> FALSE, dict |-> EmptyDict]

\* json.loads(s): ok is FALSE for a JSONDecodeError; isdict tells an object
\* from a number.
json_loads(s) == loads_from(s, skip_ws(s, 1))

\* re.search(r'"<key>"\s*:\s*"([^"]+)"', s) from index `from` on (min_len
\* 1), or with "([^"]*)" (min_len 0): whether it matches, and group(1) of
\* the leftmost match.
RECURSIVE re_search_field(_, _, _, _)

field_value(s, key, min_len, at, open, close) ==
    IF close # 0 /\ close - open - 1 >= min_len
    THEN [found |-> TRUE, group |-> SubSeq(s, open + 1, close - 1)]
    ELSE re_search_field(s, key, min_len, at + 1)

field_open(s, key, min_len, at, open) ==
    field_value(s, key, min_len, at, open, closing_quote(s, open))

field_colon(s, key, min_len, at, colon) ==
    IF colon <= Len(s) /\ Ch(s, colon) = ":"
    THEN field_open(s, key, min_len, at, skip_ws(s, colon + 1))
    ELSE re_search_field(s, key, min_len, at + 1)

field_at(s, key, min_len, at) ==
    IF at = 0 THEN [found |-> FALSE, group |-> ""]
    ELSE field_colon(s, key, min_len, at, skip_ws(s, at + Len(key) + 2))

re_search_field(s, key, min_len, from) ==
    field_at(s, key, min_len, find(s, Quote \o key \o Quote, from))

\* args[key] = match.group(1) when the expression matched.
matched(m, key) == IF m.found THEN (key :> m.group) ELSE EmptyDict

\* Lines 140-141 of _fix_malformed_json: the closing brace is added.
with_closing_brace(raw_args) ==
    IF contains(raw_args, "{") /\ ~contains(raw_args, "}") THEN raw_args \o "}" ELSE raw_args

\* Lines 143-165 of _fix_malformed_json: the four fields are extracted.
extract_fields(raw) ==
    matched(re_search_field(raw, "file_path", 1, 1), "file_path")
    @@ matched(re_search_field(raw, "content", 0, 1), "content")
    @@ matched(re_search_field(raw, "mode", 0, 1), "mode")
    @@ matched(re_search_field(raw, "output_dir", 0, 1), "output_dir")

\* ToolCallAgent._fix_malformed_json(raw_args)
fix_malformed_json(raw_args) == extract_fields(with_closing_brace(raw_args))

(***************************************************************************)
(* ToolCallAgent: the dispatcher.  In the observation strings the          *)
(* backquotes around the tool name are written as apostrophes and the      *)
(* emoji of the error texts are left out.                                  *)
(***************************************************************************)
TOOL_CALL_REQUIRED == "Tool calls required but none provided"

OUTPUT_DIR == "output"

\* Manus.available_tools.tool_map: the names of the registered tools.
tool_map == {"python_execute", "google_search", "browser_use", "file_saver", "terminate"}

\* ToolCallAgent.special_tool_names
special_tool_names == {"terminate"}

\* A check that takes every tool for a special tool.
every_tool_special(name) == TRUE

\* ToolCallAgent._is_special_tool(name)
is_special_tool(name) == lower(name) \in {lower(n) : n \in special_tool_names}

\* ToolCallAgent._should_finish_execution(**kwargs)
should_finish_execution(name, result) == TRUE

\* A special tool that leaves the agent state alone.
special_tool_ignored(name, result, st) == st

\* ToolCallAgent._handle_special_tool(name, result): the agent state after.
handle_special_tool(name, result, st) ==
    IF ~is_special_tool(name) THEN st
    ELSE IF should_finish_execution(name, result) THEN "FINISHED"
    ELSE st

\* What one statement or call gives: it either returns an observation or
\* raises, and leaves the agent state, the session marker, the files it
\* wrote and the tools it invoked.
Outcome(raised, observation, st, ts, written, ran) ==
    [raised |-> raised, observation |-> observation, state |-> st,
     ts |-> ts, written |-> written, invoked |-> ran]

\* What FileSaver.execute returned, as the outcome of the tool.
file_saver_outcome(name, st, r) == Outcome(FALSE, r.result, st, r.ts, r.written, <<name>>)

\* self.available_tools.execute(name=name, tool_input=args).  oc is what
\* the environment decides: oc.fault (the tool raises), oc.result (the text
\* a tool other than the file writer returns), oc.io_fault (the file
\* system fails).  The result is in the observation field.
tools_execute(name, args, st, ts, now, oc) ==
    IF oc.fault \/ (name = "file_saver" /\ ~(DOMAIN args \subseteq FileSaverParams))
    THEN Outcome(TRUE, "tool fault", st, ts, <<>>, <<name>>)
    ELSE IF name = "file_saver"
    THEN file_saver_outcome(name, st, execute(args, ts, now, oc.io_fault))
    ELSE Outcome(FALSE, oc.result, st, ts, <<>>, <<name>>)

\* Lines 289-293: the parse error.
parse_error(name) == "Error: Error parsing arguments for " \o name \o ": Invalid JSON format"

\* A recovery whose faults are not caught.
recovery_reraise(name, r) == r

\* Lines 286-287: the except clause around the recovery.  A fault in the
\* recovery is logged and control falls through to the parse error.
recovery_except(name, r) ==
    IF r.raised
    THEN [r EXCEPT !.raised = FALSE, !.observation = parse_error(name)]
    ELSE r

\* Line 259: the observation of a write with generated content.
auto_fixed(name, r) ==
    IF r.raised THEN r
    ELSE [r EXCEPT !.observation =
             "Observed output of cmd '" \o name \o "' executed (with auto-fixed arguments):\n"
             \o r.observation
             \o "\n\nNote: Default content was generated because the original request had missing content."]

\* Line 283: the observation of a write with the extracted content.
fixed_json(name, r) ==
    IF r.raised THEN r
    ELSE [r EXCEPT !.observation =
             "Observed output of cmd '" \o name \o "' executed (with fixed JSON):\n"
             \o r.observation]

\* Lines 239-251 and 263-275: the corrected arguments.
corrected_args(args, content) ==
    [k \in DOMAIN args \cap {"mode", "output_dir"} |-> args[k]]
    @@ [file_path |-> args["file_path"], content |-> content, output_dir |-> OUTPUT_DIR]

\* A recovery that writes under a default name when no path was extracted.
recover_with_default_path(name, args, st, ts, now, oc) ==
    IF Has(args, "content") /\ ~Has(args, "file_path")
    THEN fixed_json(name,
             tools_execute(name,
                 [file_path |-> "untitled.txt", content |-> args["content"],
                  output_dir |-> OUTPUT_DIR],
                 st, ts, now, oc))
    ELSE Outcome(FALSE,
             "Error: Invalid JSON format for file_saver tool. To save a file, you need both 'file_path' and 'content' parameters in valid JSON format.",
             st, ts, <<>>, <<>>)

\* Lines 228-285: the recovery, given the extracted arguments.
recover(name, args, st, ts, now, oc) ==
    IF Has(args, "file_path") /\ ~Has(args, "content")
       /\ generate_default_content(args["file_path"]) # ""
    THEN auto_fixed(name,
             tools_execute(name,
                 corrected_args(args, generate_default_content(args["file_path"])),
                 st, ts, now, oc))
    ELSE IF Has(args, "file_path") /\ Has(args, "content")
    THEN fixed_json(name,
             tools_execute(name, corrected_args(args, args["content"]), st, ts, now, oc))
    ELSE Outcome(FALSE,
             "Error: Invalid JSON format for file_saver tool. To save a file, you need both 'file_path' and 'content' parameters in valid JSON format.",
             st, ts, <<>>, <<>>)

\* Lines 219-285: the recovery of the file writer's arguments.
recovery(name, raw_args, st, ts, now, oc) ==
    recover(name, fix_malformed_json(raw_args), st, ts, now, oc)

\* A handler that tries the recovery for every tool.
recover_any_tool(name, raw_args, st, ts, now, oc) ==
    recovery_except(name, recovery(name, raw_args, st, ts, now, oc))

\* Lines 216-293: the handler of json.JSONDecodeError.
json_decode_error(name, raw_args, st, ts, now, oc) ==
    IF name = "file_saver"
    THEN recovery_except(name, recovery(name, raw_args, st, ts, now, oc))
    ELSE Outcome(FALSE, parse_error(name), st, ts, <<>>, <<>>)

\* Lines 294-297: the handler of every other exception of the try block.
tool_except(name, r) ==
    IF r.raised
    THEN [r EXCEPT !.raised = FALSE,
                   !.observation = "Error: Tool '" \o name \o "' encountered a problem: "
                                   \o r.observation]
    ELSE r

\* Lines 196-199: the agent's output directory is the default.
with_output_dir(name, args) ==
    IF name = "file_saver" /\ ~Has(args, "output_dir")
    THEN args @@ [output_dir |-> OUTPUT_DIR]
    ELSE args

\* Lines 205-215: the observation is formatted and a special tool ends
\* the run.
observe(name, st, r) ==
    IF r.raised THEN r
    ELSE [r EXCEPT !.observation =
                      IF r.observation # ""
                      THEN "Observed output of cmd '" \o name \o "' executed:\n" \o r.observation
                      ELSE "Cmd '" \o name \o "' completed with no output",
                   !.state = handle_special_tool(name, r.observation, st)]

\* A try block without the required-field checks of the file writer.
dispatch_unchecked(name, parsed, st, ts, now, oc) ==
    IF ~parsed.isdict
    THEN Outcome(TRUE, "arguments are not a mapping", st, ts, <<>>, <<>>)
    ELSE observe(name, st,
             tools_execute(name, with_output_dir(name, parsed.dict), st, ts, now, oc))

\* Lines 185-215: the try block once the arguments are parsed.
dispatch(name, parsed, st, ts, now, oc) ==
    IF ~parsed.isdict
    THEN Outcome(TRUE, "arguments are not a mapping", st, ts, <<>>, <<>>)
    ELSE IF name = "file_saver" /\ ~Has(parsed.dict, "content")
    THEN Outcome(FALSE, "Error: Error: Missing required 'content' parameter for file_saver tool",
                 st, ts, <<>>, <<>>)
    ELSE IF name = "file_saver" /\ ~Has(parsed.dict, "file_path")
    THEN Outcome(FALSE, "Error: Error: Missing required 'file_path' parameter for file_saver tool",
                 st, ts, <<>>, <<>>)
    ELSE observe(name, st,
             tools_execute(name, with_output_dir(name, parsed.dict), st, ts, now, oc))

\* Lines 181-297: the try statement, given what json.loads made of the
\* arguments.
execute_parsed(command, parsed, st, ts, now, oc) ==
    IF ~parsed.ok
    THEN json_decode_error(command.name, command.arguments, st, ts, now, oc)
    ELSE tool_except(command.name, dispatch(command.name, parsed, st, ts, now, oc))

\* A dispatcher that does not look the name up.
execute_unlisted_tool(command, st, ts, now, oc) ==
    IF command.name = ""
    THEN Outcome(FALSE, "Error: Invalid command format", st, ts, <<>>, <<>>)
    ELSE execute_parsed(command,
             json_loads(IF command.arguments = "" THEN "{}" ELSE command.arguments),
             st, ts, now, oc)

\* ToolCallAgent.execute_tool(command)
execute_tool(command, st, ts, now, oc) ==
    IF command.name = ""
    THEN Outcome(FALSE, "Error: Invalid command format", st, ts, <<>>, <<>>)
    ELSE IF command.name \notin tool_map
    THEN Outcome(FALSE, "Error: Unknown tool '" \o command.name \o "'", st, ts, <<>>, <<>>)
    ELSE execute_parsed(command,
             json_loads(IF command.arguments = "" THEN "{}" ELSE command.arguments),
             st, ts, now, oc)

(***************************************************************************)
(* ToolCallAgent: think and act.                                           *)
(***************************************************************************)
\* The text of app.prompt.manus.NEXT_STEP_PROMPT (a non-empty prompt).
NEXT_STEP_PROMPT == "next step"

\* The constructors of Message that think and act use.
Message(role, content, calls, tool_call_id, name) ==
    [role |-> role, content |-> content, tool_calls |-> calls,
     tool_call_id |-> tool_call_id, name |-> name]

user_message(content) == Message("user", content, <<>>, "", "")

assistant_message(content) == Message("assistant", content, <<>>, "", "")

from_tool_calls(content, calls) == Message("assistant", content, calls, "", "")

tool_message(content, tool_call_id, name) == Message("tool", content, <<>>, tool_call_id, name)

\* Lines 41-43 of think: the next-step prompt joins the history.
with_next_step_prompt(msgs) ==
    IF NEXT_STEP_PROMPT # "" THEN Append(msgs, user_message(NEXT_STEP_PROMPT)) ELSE msgs

\* Lines 75-83 of think: tool choice "none".
think_none(msgs, response) ==
    IF response.content # ""
    THEN [raised |-> FALSE, messages |-> Append(msgs, assistant_message(response.content)),
          tool_calls |-> response.tool_calls, should_act |-> TRUE]
    ELSE [raised |-> FALSE, messages |-> msgs, tool_calls |-> response.tool_calls,
          should_act |-> FALSE]

\* Lines 86-92 of think: the assistant message.
assistant_msg(response) ==
    IF response.tool_calls # <<>>
    THEN from_tool_calls(response.content, response.tool_calls)
    ELSE assistant_message(response.content)

\* Lines 85-102 of think: tool choice "auto" or "required".
think_tools(msgs, choice, response) ==
    [raised     |-> FALSE,
     messages   |-> Append(msgs, assistant_msg(response)),
     tool_calls |-> response.tool_calls,
     should_act |-> IF choice = "required" /\ response.tool_calls = <<>> THEN TRUE
                    ELSE IF choice = "auto" /\ response.tool_calls = <<>>
                    THEN response.content # ""
                    ELSE response.tool_calls # <<>>]

\* Lines 41-60 of think when the backend request raises: the next-step
\* prompt has joined the history, self.tool_calls keeps the calls it had,
\* and the error leaves think, because the try block of lines 73-110 starts
\* after the request.
think_request_raises(msgs, calls) ==
    [raised |-> TRUE, messages |-> with_next_step_prompt(msgs), tool_calls |-> calls,
     should_act |-> FALSE]

\* ToolCallAgent.think(), given the response of the backend: the history
\* and self.tool_calls afterwards, and the value returned.
think(msgs, choice, response) ==
    IF choice = "none"
    THEN think_none(with_next_step_prompt(msgs), response)
    ELSE think_tools(with_next_step_prompt(msgs), choice, response)

\* "\n\n".join(results)
RECURSIVE join_results(_)
join_results(results) ==
    IF results = <<>> THEN ""
    ELSE IF Len(results) = 1 THEN results[1]
    ELSE results[1] \o "\n\n" \o join_results(Tail(results))

\* The result of a command is put before the results of the earlier ones.
after_command_reversed(acc, command, r) ==
    [results  |-> <<r.observation>> \o acc.results,
     messages |-> Append(acc.messages, tool_message(r.observation, command.id, command.name)),
     state    |-> r.state,
     ts       |-> r.ts,
     written  |-> acc.written \o r.written,
     invoked  |-> acc.invoked \o [k \in 1..Len(r.invoked) |->
                                    [id |-> command.id, name |-> r.invoked[k]]]]

\* Lines 124-133 of act: the result r of one command joins the history
\* and the results.
after_command(acc, command, r) ==
    [results  |-> Append(acc.results, r.observation),
     messages |-> Append(acc.messages, tool_message(r.observation, command.id, command.name)),
     state    |-> r.state,
     ts       |-> r.ts,
     written  |-> acc.written \o r.written,
     invoked  |-> acc.invoked \o [k \in 1..Len(r.invoked) |->
                                    [id |-> command.id, name |-> r.invoked[k]]]]

\* An act that stops dispatching once the agent has finished.
RECURSIVE act_until_finished(_, _, _, _, _)
act_until_finished(calls, i, acc, now, ocs) ==
    IF i > Len(calls) \/ acc.state = "FINISHED" THEN acc
    ELSE act_until_finished(calls, i + 1,
             after_command(acc, calls[i],
                 execute_tool(calls[i], acc.state, acc.ts, now, ocs[i])),
             now, ocs)

\* Lines 121-133 of act: the commands from index i on are executed in
\* turn; ocs[i] is what the environment decides for command i.
RECURSIVE act_commands(_, _, _, _, _)
act_commands(calls, i, acc, now, ocs) ==
    IF i > Len(calls) THEN acc
    ELSE act_commands(calls, i + 1,
             after_command(acc, calls[i],
                 execute_tool(calls[i], acc.state, acc.ts, now, ocs[i])),
             now, ocs)

\* The content of message m, as act returns it at line 119.
content_or_sentinel(m) ==
    IF m.content # "" THEN m.content ELSE "No content or commands to execute"

\* Line 135 of act: the results are joined and returned.
act_return(done) ==
    [raised |-> FALSE, result |-> join_results(done.results),
     messages |-> done.messages, state |-> done.state, ts |-> done.ts,
     written |-> done.written, invoked |-> done.invoked]

\* An act that treats "required" like "auto" when there are no calls.
act_without_required(calls, choice, msgs, st, ts, now, ocs) ==
    IF calls = <<>>
    THEN [raised |-> FALSE, result |-> content_or_sentinel(msgs[Len(msgs)]),
          messages |-> msgs, state |-> st, ts |-> ts, written |-> <<>>,
          invoked |-> <<>>]
    ELSE act_return(act_commands(calls, 1,
             [results |-> <<>>, messages |-> msgs, state |-> st, ts |-> ts,
              written |-> <<>>, invoked |-> <<>>],
             now, ocs))

\* ToolCallAgent.act(): whether it raises, the string it returns (or the
\* text of the error raised), and the history, agent state, session marker,
\* files written and tools invoked afterwards.
act(calls, choice, msgs, st, ts, now, ocs) ==
    IF calls = <<>>
    THEN IF choice = "required"
         THEN [raised |-> TRUE, result |-> TOOL_CALL_REQUIRED, messages |-> msgs,
               state |-> st, ts |-> ts, written |-> <<>>, invoked |-> <<>>]
         ELSE [raised |-> FALSE, result |-> content_or_sentinel(msgs[Len(msgs)]),
               messages |-> msgs, state |-> st, ts |-> ts, written |-> <<>>,
               invoked |-> <<>>]
    ELSE act_return(act_commands(calls, 1,
             [results |-> <<>>, messages |-> msgs, state |-> st, ts |-> ts,
              written |-> <<>>, invoked |-> <<>>],
             now, ocs))

(***************************************************************************)
(* The state machine.                                                      *)
(***************************************************************************)
Agents == {1, 2}

Choices == {"none", "auto", "required"}

NoCall == [command |-> [id |-> "", name |-> "", arguments |-> ""], args |-> EmptyDict,
           raised |-> FALSE, observation |-> "", invoked |-> <<>>, written |-> <<>>,
           state_before |-> "IDLE", state_after |-> "IDLE",
           ts_before |-> None, ts_after |-> None,
           oc |-> [fault |-> FALSE, result |-> "", io_fault |-> FALSE],
           run |-> 0, at |-> 0]

NoResult == [raised |-> FALSE, result |-> ""]

NoThink == [fault |-> FALSE, raised |-> FALSE, should_act |-> FALSE]

\* A file of the log: what was written, by which agent, in which run (the
\* number of reset_session calls before it), under which marker and when.
FileEntry(w, a, run, ts, now) ==
    [path |-> w.path, dir |-> w.dir, mode |-> w.mode, content |-> w.content,
     agent |-> a, run |-> run, ts |-> ts, at |-> now]

Logged(written, a, run, ts, now) ==
    [k \in 1..Len(written) |-> FileEntry(written[k], a, run, ts, now)]

\* What the environment may decide for one tool execution.
Ok == [fault |-> FALSE, result |-> "done", io_fault |-> FALSE]
NoOutput == [fault |-> FALSE, result |-> "", io_fault |-> FALSE]
ToolFault == [fault |-> TRUE, result |-> "", io_fault |-> FALSE]
IoFault == [fault |-> FALSE, result |-> "done", io_fault |-> TRUE]

\* The tool calls of a backend response: at most MaxCalls calls of the
\* given shapes, with identifiers that are unique to the response.
call_id(step, i) == "call_" \o ToString(step) \o "_" \o ToString(i)

ToolCalls(step, shapes) ==
    UNION {{[i \in 1..n |-> [id |-> call_id(step, i), name |-> f[i].name,
                             arguments |-> f[i].arguments]] : f \in [1..n -> shapes]} :
           n \in 0..MaxCalls}

\* Argument texts for the file writer.
SaveArgs(file_path) ==
    "{\"content\": \"hello\", \"file_path\": \"" \o file_path \o "\"}"

SaveArgsIn(file_path, output_dir) ==
    "{\"content\": \"hello\", \"file_path\": \"" \o file_path
    \o "\", \"output_dir\": \"" \o output_dir \o "\"}"

Shape(name, arguments) == [name |-> name, arguments |-> arguments]

\* The inputs of the loop: a request, the contents and the calls the
\* backend answers with, and what the environment decides for a tool.
Requests == {"write the notes"}

Contents == {"", "a thought"}

LoopShapes == {Shape("terminate", "{\"status\": \"success\"}"),
               Shape("file_saver", SaveArgs("notes.md"))}

LoopOutcomes == {Ok}

\* A loop that goes on while the budget lasts, whatever the agent state.
loop_ignores_state(step, st) == IF step < MaxSteps THEN "think" ELSE "done"

\* The loop of run(): after an iteration, another one while the budget
\* lasts and the agent has not finished.
loop_next(step, st) == IF step < MaxSteps /\ st # "FINISHED" THEN "think" ELSE "done"

Init ==
    /\ clock = 0
    /\ current_session_timestamp = None
    /\ resets = 0
    /\ files = <<>>
    /\ state = [a \in Agents |-> "IDLE"]
    /\ pc = [a \in Agents |-> "idle"]
    /\ current_step = [a \in Agents |-> 0]
    /\ tool_choices \in [Agents -> Choices]
    /\ tool_choices[2] = "auto"
    /\ tool_calls = [a \in Agents |-> <<>>]
    /\ messages = [a \in Agents |-> <<>>]
    /\ act_result = [a \in Agents |-> NoResult]
    /\ think_result = [a \in Agents |-> NoThink]
    /\ invoked = [a \in Agents |-> <<>>]
    /\ last_call = NoCall

\* Time passes.
Tick ==
    /\ clock < MaxClock
    /\ clock' = clock + 1
    /\ UNCHANGED <<current_session_timestamp, resets, files, state, pc, current_step,
                   tool_choices, tool_calls, messages, act_result, think_result,
                   invoked, last_call>>

\* Manus.run(request): the session is reset and the loop is entered.
Run(a, request) ==
    /\ pc[a] = "idle"
    /\ resets < MaxResets
    /\ current_session_timestamp' = reset_session(current_session_timestamp)
    /\ resets' = resets + 1
    /\ state' = [state EXCEPT ![a] = "RUNNING"]
    /\ messages' = [messages EXCEPT ![a] = <<user_message(request)>>]
    /\ pc' = [pc EXCEPT ![a] = loop_next(current_step[a], "RUNNING")]
    /\ UNCHANGED <<clock, files, current_step, tool_choices, tool_calls, act_result,
                   think_result, invoked, last_call>>

\* One think step of agent a: the backend request raises (for a fault of
\* faults), or the backend answers with one of the given contents and some
\* calls of the given shapes.  An error raised by think ends the run in ERROR.
Think(a, shapes, contents, faults) ==
    /\ pc[a] = "think"
    /\ \E fault \in faults :
         \E content \in contents, calls \in ToolCalls(current_step[a] + 1, shapes) :
           \E r \in {IF fault
                     THEN think_request_raises(messages[a], tool_calls[a])
                     ELSE think(messages[a], tool_choices[a],
                                [content |-> content, tool_calls |-> calls])} :
             /\ current_step' = [current_step EXCEPT ![a] = @ + 1]
             /\ messages' = [messages EXCEPT ![a] = r.messages]
             /\ tool_calls' = [tool_calls EXCEPT ![a] = r.tool_calls]
             /\ think_result' = [think_result EXCEPT ![a] =
                                    [fault |-> fault, raised |-> r.raised,
                                     should_act |-> r.should_act]]
             /\ state' = [state EXCEPT ![a] = IF r.raised THEN "ERROR" ELSE @]
             /\ pc' = [pc EXCEPT ![a] = IF r.raised THEN "done"
                                        ELSE IF r.should_act THEN "act"
                                        ELSE loop_next(current_step[a] + 1, state[a])]
    /\ UNCHANGED <<clock, current_session_timestamp, resets, files, tool_choices,
                   act_result, invoked, last_call>>

\* One act step of agent a.  An error raised by act ends the run in ERROR.
Act(a, outcomes) ==
    /\ pc[a] = "act"
    /\ \E ocs \in [1..Len(tool_calls[a]) -> outcomes] :
         \E r \in {act(tool_calls[a], tool_choices[a], messages[a], state[a],
                       current_session_timestamp, clock, ocs)} :
             /\ act_result' = [act_result EXCEPT ![a] =
                                  [raised |-> r.raised, result |-> r.result]]
             /\ messages' = [messages EXCEPT ![a] = r.messages]
             /\ state' = [state EXCEPT ![a] = IF r.raised THEN "ERROR" ELSE r.state]
             /\ current_session_timestamp' = r.ts
             /\ files' = files \o Logged(r.written, a, resets, r.ts, clock)
             /\ invoked' = [invoked EXCEPT ![a] = @ \o r.invoked]
             /\ pc' = [pc EXCEPT ![a] = IF r.raised THEN "done"
                                        ELSE loop_next(current_step[a], r.state)]
    /\ UNCHANGED <<clock, resets, current_step, tool_choices, tool_calls, think_result,
                   last_call>>

Next ==
    \/ Run(1, "write the notes")
    \/ Think(1, LoopShapes, Contents, BOOLEAN)
    \/ Act(1, LoopOutcomes)

Spec == Init /\ [][Next]_vars

\* The run makes progress: a backend request and a tool execution that are
\* under way come back, and the event loop resumes the coroutine.  The last
\* conjunct is weak fairness of Act(1, LoopOutcomes) written out: Act is
\* enabled exactly when pc[1] = "act", and every Act step leaves that phase.
SpecLive ==
    /\ Spec
    /\ WF_vars(Run(1, "write the notes"))
    /\ WF_vars(Think(1, LoopShapes, Contents, BOOLEAN))
    /\ []<>(pc[1] # "act")

(***************************************************************************)
(* Two runs in one process: each agent runs once, and an agent may start   *)
(* while the other is suspended at its backend request or its file I/O.    *)
(***************************************************************************)
ConcShapes == {Shape("file_saver", SaveArgs("notes.md"))}

InitConc == Init /\ tool_choices = [a \in Agents |-> "auto"]

NextConc ==
    \/ Tick
    \/ \E a \in Agents : Run(a, "write the notes")
    \/ \E a \in Agents : Think(a, ConcShapes, {"a thought"}, {FALSE})
    \/ \E a \in Agents : Act(a, {Ok})

SpecConc == InitConc /\ [][NextConc]_vars

(***************************************************************************)
(* The dispatcher on its own: agent 1 is in the act phase of a run and     *)
(* execute_tool is called with one command after another.                  *)
(***************************************************************************)
InitDispatch ==
    /\ clock = 0
    /\ current_session_timestamp = None
    /\ resets = 1
    /\ files = <<>>
    /\ state = [a \in Agents |-> IF a = 1 THEN "RUNNING" ELSE "IDLE"]
    /\ pc = [a \in Agents |-> IF a = 1 THEN "dispatch" ELSE "idle"]
    /\ current_step = [a \in Agents |-> IF a = 1 THEN 1 ELSE 0]
    /\ tool_choices = [a \in Agents |-> "auto"]
    /\ tool_calls = [a \in Agents |-> <<>>]
    /\ messages = [a \in Agents |-> <<>>]
    /\ act_result = [a \in Agents |-> NoResult]
    /\ think_result = [a \in Agents |-> NoThink]
    /\ invoked = [a \in Agents |-> <<>>]
    /\ last_call = NoCall

\* execute_tool(command) for agent a; last_call keeps the command, what the
\* environment decided, what the call gave back, the agent state and marker
\* around it, and the run and the time of the call.
Dispatch(a, inputs) ==
    /\ pc[a] = "dispatch"
    /\ Len(files) < MaxFiles
    /\ \E input \in inputs :
         \E r \in {execute_tool(input.command, state[a], current_session_timestamp,
                                clock, input.oc)} :
             /\ last_call' = [command |-> input.command, args |-> EmptyDict,
                              raised |-> r.raised,
                              observation |-> r.observation, invoked |-> r.invoked,
                              written |-> r.written,
                              state_before |-> state[a], state_after |-> r.state,
                              ts_before |-> current_session_timestamp, ts_after |-> r.ts,
                              oc |-> input.oc, run |-> resets, at |-> clock]
             /\ state' = [state EXCEPT ![a] = r.state]
             /\ current_session_timestamp' = r.ts
             /\ files' = files \o Logged(r.written, a, resets, r.ts, clock)
    /\ UNCHANGED <<clock, resets, pc, current_step, tool_choices, tool_calls, messages,
                   act_result, think_result, invoked>>

\* The run ends and Manus.run starts the next one: the session is reset.
NewRun(a) ==
    /\ pc[a] = "dispatch"
    /\ resets < MaxResets
    /\ current_session_timestamp' = reset_session(current_session_timestamp)
    /\ resets' = resets + 1
    /\ state' = [state EXCEPT ![a] = "RUNNING"]
    /\ UNCHANGED <<clock, files, pc, current_step, tool_choices, tool_calls, messages,
                   act_result, think_result, invoked, last_call>>

Command(id, name, arguments) == [id |-> id, name |-> name, arguments |-> arguments]

Input(command, oc) == [command |-> command, oc |-> oc]

\* Requests of every shape, each with the outcomes that matter to it.
DispatchCommands ==
    {Command("c1", "", "{}"),
     Command("c2", "nope", "{}"),
     Command("c3", "Terminate", "{}"),
     Command("c4", "terminate", "{\"status\": \"success\"}"),
     Command("c5", "terminate", ""),
     Command("c6", "python_execute", "{\"code\": \"1\"}"),
     Command("c7", "python_execute", "{\"code\": "),
     Command("c8", "google_search", "7"),
     Command("c9", "file_saver", "7"),
     Command("c10", "file_saver", SaveArgs("notes.md")),
     Command("c11", "file_saver", SaveArgsIn("notes.md", "other")),
     Command("c12", "file_saver", "{\"file_path\": \"notes.md\"}"),
     Command("c13", "file_saver", "{\"content\": \"hello\"}"),
     Command("c14", "file_saver", "{\"content\": \"\", \"file_path\": \"page.html\"}"),
     Command("c15", "file_saver", "{\"content\": \"hello\", \"file_path\": \"notes.md\", \"encoding\": \"utf-8\"}"),
     Command("c16", "file_saver", "{\"content\": \"hello\", \"file_path\": \"notes.md\", \"mode\": \"x\"}"),
     Command("c17", "file_saver", "{\"file_path\": \"notes.md\", "),
     Command("c18", "file_saver", "{\"file_path\": \"notes.md\", \"content\": \"line 1\nline 2\"}"),
     Command("c19", "file_saver", "{\"content\": \"hello\", "),
     Command("c20", "file_saver", "{\"file_path\": \"\", \"content\": \"hello\""),
     Command("c21", "file_saver", "{\"file_path\": \"main.py\", \"mode\": \"a\", \"output_dir\": \"other\", "),
     Command("c22", "file_saver", "{\"file_path\": \"notes.md\", \"content\": \"\", "),
     Command("c23", "file_saver", SaveArgs("/tmp/")),
     Command("c24", "file_saver", "{\"file_path\": \"notes.md\", \"mode\": \"x\", "),
     Command("c25", "terminate", "{\"status\": "),
     Command("c26", "browser_use", "{\"file_path\": \"notes.md\", \"content\": \"hello\"")}

\* What the environment can decide for a command.  Every command can find
\* its tool working; a tool that raises, a tool that returns nothing and a
\* write that fails are tried on commands of each kind that reaches a tool:
\* the special tool, another tool, and a write with parsed, with recovered
\* and with synthesized arguments.
Faulting == {"c4", "c5", "c6", "c10", "c17", "c18", "c21"}

Silent == {"c4", "c6"}

FailingWrites == {"c10", "c14", "c17"}

Outcomes(command) ==
    {Ok} \cup (IF command.id \in Faulting THEN {ToolFault} ELSE {})
         \cup (IF command.id \in Silent THEN {NoOutput} ELSE {})
         \cup (IF command.id \in FailingWrites THEN {IoFault} ELSE {})

DispatchInputs == UNION {{Input(c, oc) : oc \in Outcomes(c)} : c \in DispatchCommands}

NextDispatch == Dispatch(1, DispatchInputs)

SpecDispatch == InitDispatch /\ [][NextDispatch]_vars

(***************************************************************************)
(* The file writer over several runs and while time passes.                *)
(***************************************************************************)
FileCommands ==
    {Command("f1", "file_saver", SaveArgs("notes.md")),
     Command("f2", "file_saver", SaveArgs("/etc/passwd")),
     Command("f3", "file_saver", SaveArgsIn("notes.md", "other")),
     Command("f4", "file_saver", SaveArgs(" "))}

FileInputs ==
    {Input(c, Ok) : c \in FileCommands}
    \cup {Input(Command("f1", "file_saver", SaveArgs("notes.md")), IoFault)}

NextFiles ==
    \/ Tick
    \/ NewRun(1)
    \/ Dispatch(1, FileInputs)

SpecFiles == InitDispatch /\ [][NextFiles]_vars

(***************************************************************************)
(* The file writer within one run, with paths of every shape.              *)
(***************************************************************************)
PathCommands ==
    {Command("p1", "file_saver", SaveArgs("notes.md")),
     Command("p2", "file_saver", SaveArgs("sub/notes.md")),
     Command("p3", "file_saver", SaveArgs("/etc/passwd")),
     Command("p4", "file_saver", SaveArgs("output/notes.md")),
     Command("p5", "file_saver", SaveArgs("output/output/x.md")),
     Command("p6", "file_saver", SaveArgs("../x.md")),
     Command("p7", "file_saver", SaveArgs("output//tmp/x.md")),
     Command("p8", "file_saver", SaveArgsIn("other/notes.md", "other")),
     Command("p9", "file_saver", SaveArgsIn("output/notes.md", "other")),
     Command("p10", "file_saver", SaveArgsIn("/other/sub/notes.md", "/other"))}

PathInputs == {Input(c, oc) : c \in PathCommands, oc \in {Ok, IoFault}}

NextPaths == Dispatch(1, PathInputs)

SpecPaths == InitDispatch /\ [][NextPaths]_vars

(***************************************************************************)
(* The file writer called directly, as a host of the tool calls it, over   *)
(* several runs.                                                           *)
(***************************************************************************)
\* A direct call: the keyword arguments and whether the file system fails.
Call(args, io_fault) == [args |-> args, io_fault |-> io_fault]

SaverArgs ==
    {[content |-> "hello", file_path |-> "notes.md"],
     [content |-> "hello"],
     [content |-> "hello", file_path |-> ""],
     [content |-> "hello", file_path |-> " "],
     [content |-> "hello", file_path |-> "notes.md", mode |-> "a"],
     [content |-> "hello", file_path |-> "notes.md", mode |-> "x"],
     [content |-> "hello", file_path |-> "notes.md", mode |-> ""],
     [file_path |-> "notes.md"],
     [file_path |-> "notes.md", mode |-> "x"],
     [content |-> "", file_path |-> " "],
     [mode |-> "w"]}

SaverInputs ==
    {Call(args, FALSE) : args \in SaverArgs}
    \cup {Call([content |-> "hello", file_path |-> "notes.md"], TRUE)}

\* await FileSaver().execute(**input.args) for agent a; last_call keeps the
\* arguments, the string returned, the file written and the marker before
\* and after.
Save(a, inputs) ==
    /\ pc[a] = "dispatch"
    /\ Len(files) < MaxFiles
    /\ \E input \in inputs :
         \E r \in {execute(input.args, current_session_timestamp, clock, input.io_fault)} :
             /\ last_call' = [command |-> Command("direct", "file_saver", ""),
                              args |-> input.args, raised |-> FALSE,
                              observation |-> r.result, invoked |-> <<"file_saver">>,
                              written |-> r.written,
                              state_before |-> state[a], state_after |-> state[a],
                              ts_before |-> current_session_timestamp, ts_after |-> r.ts,
                              oc |-> IF input.io_fault THEN IoFault ELSE Ok,
                              run |-> resets, at |-> clock]
             /\ current_session_timestamp' = r.ts
             /\ files' = files \o Logged(r.written, a, resets, r.ts, clock)
    /\ UNCHANGED <<clock, resets, state, pc, current_step, tool_choices, tool_calls,
                   messages, act_result, think_result, invoked>>

NextSaver ==
    \/ Tick
    \/ NewRun(1)
    \/ Save(1, SaverInputs)

SpecSaver == InitDispatch /\ [][NextSaver]_vars

(***************************************************************************)
(* Where a path leads: its components with "." and ".." resolved, as the   *)
(* file system resolves them from the working directory.                   *)
(***************************************************************************)
RECURSIVE components(_, _, _)
components(s, i, acc) ==
    IF i > Len(s) THEN <<acc>>
    ELSE IF Ch(s, i) = "/" THEN <<acc>> \o components(s, i + 1, "")
    ELSE components(s, i + 1, acc \o Ch(s, i))

RECURSIVE resolved(_, _, _, _)
resolved(parts, i, absolute, acc) ==
    IF i > Len(parts) THEN acc
    ELSE IF parts[i] \in {"", "."} THEN resolved(parts, i + 1, absolute, acc)
    ELSE IF parts[i] # ".." THEN resolved(parts, i + 1, absolute, Append(acc, parts[i]))
    ELSE IF acc # <<>> /\ acc[Len(acc)] # ".."
    THEN resolved(parts, i + 1, absolute, SubSeq(acc, 1, Len(acc) - 1))
    ELSE IF absolute THEN resolved(parts, i + 1, absolute, acc)
    ELSE resolved(parts, i + 1, absolute, Append(acc, ".."))

location(path) ==
    [absolute |-> isabs(path),
     parts    |-> resolved(components(path, 1, ""), 1, isabs(path), <<>>)]

is_descendant(path, root) ==
    /\ location(path).absolute = location(root).absolute
    /\ Len(location(path).parts) > Len(location(root).parts)
    /\ SubSeq(location(path).parts, 1, Len(location(root).parts)) = location(root).parts

\* The second in which a file was written.
second_of(entry) == entry.at \div TicksPerSecond

(***************************************************************************)
(* The claims.                                                             *)
(***************************************************************************)

\* C1: every file the file writer writes, whatever the shape of the requested
\* file_path, lies below the session root output_dir/result_<marker> of the
\* call that wrote it.
C1_WritesStayUnderSessionRoot ==
    \A i \in DOMAIN files : is_descendant(files[i].path, files[i].dir)

\* C2: two writes of the same run, with no reset_session between them, go to
\* roots named with the same result_<timestamp> token, however far the clock
\* advanced between them.
C2_SameTokenWithinRun ==
    \A i, j \in DOMAIN files :
        files[i].run = files[j].run => basename(files[i].dir) = basename(files[j].dir)

\* C2 happens: two writes of one run, made in different seconds.
C2_Witness ==
    \E i, j \in DOMAIN files :
        /\ i < j
        /\ files[i].run = files[j].run
        /\ second_of(files[i]) # second_of(files[j])
        /\ basename(files[i].dir) = "result_" \o strftime(files[i].at)

\* C3: all the writes of one run, with any arguments (any output_dir
\* included), are made under one and the same root directory.
C3_OneRootPerRun ==
    \A i, j \in DOMAIN files :
        files[i].run = files[j].run => files[i].dir = files[j].dir

\* A run of agent a is in progress.
in_run(a) == pc[a] \in {"think", "act"}

\* C4: while a run is in progress the session marker, once created, keeps its
\* value, also when another agent's run starts in the same process while
\* this one is suspended.
C4_MarkerKeptDuringRun ==
    [][\A a \in Agents :
          (in_run(a) /\ current_session_timestamp # None)
              => current_session_timestamp' = current_session_timestamp]_vars

\* The tool-role messages of a history.
tool_messages(msgs) == {k \in DOMAIN msgs : msgs[k].role = "tool"}

\* C5: under tool choice "none" the calls the backend proposes are discarded:
\* no call is dispatched, no tool is executed and no tool message is appended,
\* whether or not the response carries content.
C5_NoneDiscardsToolCalls ==
    tool_choices[1] = "none" => invoked[1] = <<>> /\ tool_messages(messages[1]) = {}

\* C6: every tool-role message of the history carries the identifier of a tool
\* call listed in an assistant-role message that stands earlier in the history.
C6_ToolMessagesAnswerCalls ==
    \A k \in tool_messages(messages[1]) :
        \E j \in 1..(k - 1) :
            /\ messages[1][j].role = "assistant"
            /\ \E c \in DOMAIN messages[1][j].tool_calls :
                   messages[1][j].tool_calls[c].id = messages[1][k].tool_call_id

\* The last call named something that is not a tool of the registry.
unknown_tool_called ==
    last_call.command.name # "" /\ last_call.command.name \notin tool_map

\* C7: for a tool name that is no key of the registry, execute_tool returns
\* the observation Error: Unknown tool '<name>', invokes no tool, and leaves
\* the agent state and the session marker as they were.
C7_UnknownToolRejected ==
    unknown_tool_called =>
        /\ ~last_call.raised
        /\ last_call.observation = "Error: Unknown tool '" \o last_call.command.name \o "'"
        /\ last_call.invoked = <<>>
        /\ last_call.written = <<>>
        /\ last_call.state_after = last_call.state_before
        /\ last_call.ts_after = last_call.ts_before

\* C7 happens: an unknown name is dispatched once the marker exists and the
\* agent has finished.
C7_Witness ==
    /\ unknown_tool_called
    /\ last_call.ts_before # None
    /\ last_call.state_before = "FINISHED"

\* C8: execute_tool returns an observation for every request and every tool
\* outcome; no exception escapes to its caller.
C8_NoExceptionEscapes == ~last_call.raised

\* C8 happens: the file writer raised inside the recovery of malformed
\* arguments, and the call returned the parse error.
C8_Witness ==
    /\ last_call.command.name = "file_saver"
    /\ ~json_loads(last_call.command.arguments).ok
    /\ last_call.invoked = <<"file_saver">>
    /\ last_call.written = <<>>
    /\ last_call.observation = parse_error("file_saver")

\* Agent 1 has thought under "required", got a response without calls, and
\* is past the act phase of that step.
required_without_calls ==
    /\ tool_choices[1] = "required"
    /\ current_step[1] >= 1
    /\ ~think_result[1].fault
    /\ tool_calls[1] = <<>>
    /\ pc[1] # "act"

\* C9: under "required", a response without tool calls makes think signal
\* continue (the act phase is entered) and act raise the error
\* 'Tool calls required but none provided'; act returns no message content
\* and appends no tool-role message (the history still ends with the
\* assistant message of the think step).
C9_RequiredWithoutCallsRaises ==
    /\ (tool_choices[1] = "required" /\ current_step[1] >= 1 /\ tool_calls[1] = <<>>
            /\ ~think_result[1].fault)
           => pc[1] \in {"act", "done"}
    /\ required_without_calls =>
           /\ act_result[1] = [raised |-> TRUE, result |-> TOOL_CALL_REQUIRED]
           /\ messages[1][Len(messages[1])].role = "assistant"
           /\ messages[1][Len(messages[1])].tool_calls = <<>>

\* C9 happens: the response had content and no calls, and act has raised.
C9_Witness ==
    /\ required_without_calls
    /\ act_result[1].raised
    /\ messages[1][Len(messages[1])].content = "a thought"

\* Agent 1's last think step proposed a single call of the special tool
\* under a policy that allows tools, and the act phase of the step is over.
single_terminate_acted ==
    /\ tool_choices[1] # "none"
    /\ Len(tool_calls[1]) = 1
    /\ is_special_tool(tool_calls[1][1].name)
    /\ pc[1] # "act"

\* C10: a think step that proposes a single call of the special tool, which
\* then executes successfully, appends one assistant message carrying the
\* call; the act phase dispatches the call and appends one tool-role message
\* tagged with the call's identifier; the agent state becomes FINISHED and no
\* further think step is made, whatever is left of the iteration budget.
\* (Every tool execution of Spec succeeds: LoopOutcomes holds Ok alone.)
C10_SingleTerminateEndsRun ==
    single_terminate_acted =>
        /\ Len(messages[1]) >= 2
        /\ messages[1][Len(messages[1]) - 1] =
               from_tool_calls(messages[1][Len(messages[1]) - 1].content, tool_calls[1])
        /\ messages[1][Len(messages[1])].role = "tool"
        /\ messages[1][Len(messages[1])].tool_call_id = tool_calls[1][1].id
        /\ Cardinality({k \in tool_messages(messages[1]) :
                           messages[1][k].tool_call_id = tool_calls[1][1].id}) = 1
        /\ invoked[1][Len(invoked[1])] =
               [id |-> tool_calls[1][1].id, name |-> tool_calls[1][1].name]
        /\ state[1] = "FINISHED"
        /\ pc[1] = "done"
        /\ ~ENABLED Think(1, LoopShapes, Contents, BOOLEAN)

\* C10 happens: the run ended at its first step with budget left.
C10_Witness ==
    /\ single_terminate_acted
    /\ state[1] = "FINISHED"
    /\ current_step[1] = 1
    /\ current_step[1] < MaxSteps

\* The last call went into the recovery of the file writer: its argument
\* text did not parse.
in_recovery ==
    /\ last_call.command.name = "file_saver"
    /\ last_call.command.arguments # ""
    /\ ~json_loads(last_call.command.arguments).ok

\* What the recovery extracted from the argument text of the last call.
recovered_args == fix_malformed_json(last_call.command.arguments)

\* C11: in the recovery of the file writer, when no file_path can be extracted
\* from the raw text, the file writer is not invoked, no file is written, the
\* session marker is left as it was, and the observation is an error that
\* names both 'file_path' and 'content'.
C11_NoPathNoWrite ==
    (in_recovery /\ ~Has(recovered_args, "file_path")) =>
        /\ ~last_call.raised
        /\ last_call.invoked = <<>>
        /\ last_call.written = <<>>
        /\ last_call.ts_after = last_call.ts_before
        /\ startswith(last_call.observation, "Error: ")
        /\ contains(last_call.observation, "'file_path'")
        /\ contains(last_call.observation, "'content'")

\* C11 happens: content was extracted, a path was not, and there is still
\* no marker after the call.
C11_Witness ==
    /\ in_recovery
    /\ ~Has(recovered_args, "file_path")
    /\ Has(recovered_args, "content")
    /\ last_call.ts_after = None

\* The recovery of the last call extracted a path and no content, with
\* arguments the file writer accepts, and nothing failed under the tool.
path_without_content ==
    /\ in_recovery
    /\ Has(recovered_args, "file_path")
    /\ ~Has(recovered_args, "content")
    /\ ~isblank(recovered_args["file_path"])
    /\ Get(recovered_args, "mode", "w") \in {"w", "a"}
    /\ last_call.oc = Ok

\* C12: when the recovery extracts a file_path and no content, it makes
\* non-empty content from the extension of the path, invokes the file writer
\* with it so that the file is written, and marks the observation as
\* auto-fixed.  The arguments and the content are those the raw text alone
\* determines, whatever the state, the marker and the clock of the call.
C12_RecoverySynthesizesContent ==
    path_without_content =>
        /\ ~last_call.raised
        /\ last_call.invoked = <<"file_saver">>
        /\ Len(last_call.written) = 1
        /\ last_call.written[1].content # ""
        /\ last_call.written[1].content
               = generate_default_content(recovered_args["file_path"])
        /\ last_call.written[1].mode = Get(recovered_args, "mode", "w")
        /\ last_call.written[1].dir
               = join(Get(recovered_args, "output_dir", OUTPUT_DIR),
                      "result_" \o last_call.ts_after)
        /\ last_call.observation
               = "Observed output of cmd 'file_saver' executed (with auto-fixed arguments):\n"
                 \o "Content successfully saved to " \o last_call.written[1].path
                 \o "\n\nNote: Default content was generated because the original request had missing content."

\* C12 happens: the same raw text is recovered a second time, in a state
\* where the marker exists, and the file of the first recovery is there with
\* the same content.
C12_Witness ==
    /\ path_without_content
    /\ last_call.ts_before # None
    /\ Len(files) = 2
    /\ files[1].path = files[2].path
    /\ files[1].content = generate_default_content(recovered_args["file_path"])
    /\ files[2].content = files[1].content

\* The last call created the session marker.
marker_created == last_call.ts_before = None /\ last_call.ts_after # None

\* C13: after reset_session the next file write creates a new marker, taken
\* from the clock at that write, and the new timestamp differs from that of
\* every earlier session whenever the clock has advanced since that
\* session's marker was created (a file of the earlier session was written
\* no earlier than its marker was created).
C13_NewMarkerAfterReset ==
    marker_created =>
        /\ last_call.ts_after = strftime(last_call.at)
        /\ \A i \in DOMAIN files :
               (files[i].run < last_call.run /\ files[i].at < last_call.at)
                   => files[i].ts # last_call.ts_after

\* The last call was a file_saver call with well-formed arguments that wrote
\* a file; call_args are its arguments as the file writer received them.
wrote_parsed ==
    /\ last_call.command.name = "file_saver"
    /\ json_loads(last_call.command.arguments).ok
    /\ Len(last_call.written) = 1

call_args == with_output_dir("file_saver", json_loads(last_call.command.arguments).dict)

\* What is left of the requested path after one leading "output_dir/".
after_prefix == Drop(call_args["file_path"], Len(call_args["output_dir"]) + 1)

has_prefix ==
    /\ ~isabs(call_args["file_path"])
    /\ startswith(call_args["file_path"], call_args["output_dir"] \o "/")

\* C14: a relative file_path that begins with output_dir and the separator
\* has that prefix stripped exactly once before it is joined to the session
\* root: "output/notes.md" is written at result_<ts>/notes.md and
\* "output/output/x.md" at result_<ts>/output/x.md.
C14_PrefixStrippedOnce ==
    (wrote_parsed /\ has_prefix) =>
        /\ last_call.written[1].path = join(last_call.written[1].dir, after_prefix)
        /\ ~isabs(after_prefix)
               => last_call.written[1].path = last_call.written[1].dir \o "/" \o after_prefix
        /\ (call_args["file_path"] = "output/notes.md" /\ call_args["output_dir"] = "output")
               => last_call.written[1].path
                      = "output/result_" \o last_call.ts_after \o "/notes.md"
        /\ (call_args["file_path"] = "output/output/x.md" /\ call_args["output_dir"] = "output")
               => last_call.written[1].path
                      = "output/result_" \o last_call.ts_after \o "/output/x.md"

\* C14 happens: a path with the prefix twice was written, with one
\* occurrence left.
C14_Witness ==
    /\ wrote_parsed
    /\ has_prefix
    /\ startswith(after_prefix, call_args["output_dir"] \o "/")
    /\ endswith(last_call.written[1].path, "/" \o after_prefix)

\* C15: an absolute file_path (it holds a separator) is reduced to its base
\* name, every directory component dropped, before it is joined to the
\* session root; no output_dir prefix is stripped from it.
C15_AbsoluteReducedToBasename ==
    (wrote_parsed /\ isabs(call_args["file_path"])) =>
        /\ contains(call_args["file_path"], "/")
        /\ ~contains(basename(call_args["file_path"]), "/")
        /\ last_call.written[1].path
               = last_call.written[1].dir \o "/" \o basename(call_args["file_path"])

\* C15 happens: an absolute path that begins with output_dir and the
\* separator and has a directory after it was written under its base name.
C15_Witness ==
    /\ wrote_parsed
    /\ isabs(call_args["file_path"])
    /\ startswith(call_args["file_path"], call_args["output_dir"] \o "/")
    /\ contains(after_prefix, "/")
    /\ last_call.written[1].path
           = last_call.written[1].dir \o "/" \o basename(call_args["file_path"])

\* The agent state is terminal.
terminal(a) == state[a] \in {"FINISHED", "ERROR"}

\* C16: every run stops.  The think/act cycle makes at most the configured
\* number of iterations; once the agent state is FINISHED or ERROR the run
\* has stopped; and after the run has stopped the agent state, the history
\* and the iteration count change no more and no think or act occurs.
C16_RunStops ==
    /\ [](current_step[1] <= MaxSteps)
    /\ [](terminal(1) => pc[1] = "done")
    /\ [][pc[1] = "done" =>
              UNCHANGED <<state, pc, messages, current_step, tool_calls, invoked, files>>]_vars
    /\ (pc[1] = "think") ~> (pc[1] = "done")

\* C16 happens: a run has used its whole budget without reaching a terminal
\* state, and has stopped.
C16_Witness ==
    /\ pc[1] = "done"
    /\ current_step[1] = MaxSteps
    /\ state[1] = "RUNNING"
    /\ invoked[1] # <<>>

\* The contents of messages from..to of a history, joined by blank lines.
RECURSIVE blank_line_joined(_, _, _)
blank_line_joined(msgs, from, to) ==
    IF from > to THEN ""
    ELSE IF from = to THEN msgs[from].content
    ELSE msgs[from].content \o "\n\n" \o blank_line_joined(msgs, from + 1, to)

\* C17: when the think step proposed several calls, act dispatches them one
\* at a time in the order proposed: it appends exactly one tool-role message
\* per call, in that order, each tagged with the identifier and the tool name
\* of its call; the tools run in that order, each after the one before it has
\* finished; and act returns the observations joined by a blank line, in that
\* order.
C17_CallsDispatchedInOrder ==
    [][(pc[1] = "act" /\ pc'[1] # "act" /\ Len(tool_calls[1]) >= 2) =>
          /\ Len(messages'[1]) = Len(messages[1]) + Len(tool_calls[1])
          /\ SubSeq(messages'[1], 1, Len(messages[1])) = messages[1]
          /\ \A i \in DOMAIN tool_calls[1] :
                 /\ messages'[1][Len(messages[1]) + i].role = "tool"
                 /\ messages'[1][Len(messages[1]) + i].tool_call_id = tool_calls[1][i].id
                 /\ messages'[1][Len(messages[1]) + i].name = tool_calls[1][i].name
          /\ Len(invoked'[1]) = Len(invoked[1]) + Len(tool_calls[1])
          /\ \A i \in DOMAIN tool_calls[1] :
                 invoked'[1][Len(invoked[1]) + i]
                     = [id |-> tool_calls[1][i].id, name |-> tool_calls[1][i].name]
          /\ \A i, j \in DOMAIN files' :
                 (Len(files) < i /\ i < j) => files'[j].ts = files'[i].ts
          /\ ~act_result'[1].raised
          /\ act_result'[1].result
                 = blank_line_joined(messages'[1], Len(messages[1]) + 1, Len(messages'[1]))
      ]_vars

\* C17 happens: two calls of different tools were dispatched, the second
\* being the special tool, and the joined result holds both observations.
C17_Witness ==
    /\ pc[1] # "act"
    /\ Len(tool_calls[1]) = 2
    /\ Len(messages[1]) >= 2
    /\ messages[1][Len(messages[1]) - 1].role = "tool"
    /\ messages[1][Len(messages[1]) - 1].tool_call_id = tool_calls[1][1].id
    /\ messages[1][Len(messages[1]) - 1].name = "file_saver"
    /\ messages[1][Len(messages[1])].role = "tool"
    /\ messages[1][Len(messages[1])].tool_call_id = tool_calls[1][2].id
    /\ messages[1][Len(messages[1])].name = "terminate"
    /\ act_result[1].result
           = messages[1][Len(messages[1]) - 1].content \o "\n\n"
             \o messages[1][Len(messages[1])].content

\* C18: an exception raised while think makes its backend request is caught
\* inside think: it does not leave think (the run does not end in ERROR),
\* think returns 'do not continue', and the failure is recorded as a single
\* assistant message that follows the next-step prompt.
C18_BackendFaultCaught ==
    think_result[1].fault =>
        /\ ~think_result[1].raised
        /\ ~think_result[1].should_act
        /\ state[1] # "ERROR"
        /\ Len(messages[1]) >= 2
        /\ messages[1][Len(messages[1])].role = "assistant"
        /\ startswith(messages[1][Len(messages[1])].content,
                      "Error encountered while processing: ")
        /\ messages[1][Len(messages[1]) - 1] = user_message(NEXT_STEP_PROMPT)

\* The messages a step has appended to the history of agent 1.
appended_messages == SubSeq(messages'[1], Len(messages[1]) + 1, Len(messages'[1]))

\* C19: every think step that receives a response appends exactly one
\* assistant message to the history, under each of the three policies and
\* for every combination of content and tool calls; when the response has
\* tool calls (self.tool_calls afterwards), that message carries them.
C19_OneAssistantMessagePerResponse ==
    [][(current_step'[1] = current_step[1] + 1 /\ ~think_result'[1].fault) =>
          /\ Cardinality({k \in DOMAIN appended_messages :
                             appended_messages[k].role = "assistant"}) = 1
          /\ \A k \in DOMAIN appended_messages :
                 (appended_messages[k].role = "assistant" /\ tool_calls'[1] # <<>>)
                     => appended_messages[k].tool_calls = tool_calls'[1]
      ]_vars

\* The last call named a tool of the special-tools set, whatever the case
\* of the letters.
names_special_tool ==
    \E n \in special_tool_names : lower(last_call.command.name) = lower(n)

\* The last call came back with an error observation.
error_dispatch == startswith(last_call.observation, "Error: ")

\* C20: execute_tool changes the agent state only to FINISHED, and only when
\* the tool it was asked for has a name of the special-tools set (compared
\* without regard to case), was invoked, and returned without raising; a
\* dispatch that ends in an error observation and a dispatch of a tool that
\* is not special leave the agent state as it was.
C20_FinishedOnlyBySpecialTool ==
    last_call.command.id # "" =>
        /\ last_call.state_after # last_call.state_before =>
               /\ last_call.state_after = "FINISHED"
               /\ names_special_tool
               /\ last_call.invoked = <<last_call.command.name>>
               /\ ~last_call.oc.fault
               /\ ~error_dispatch
        /\ (error_dispatch \/ ~names_special_tool \/ last_call.oc.fault) =>
               last_call.state_after = last_call.state_before

\* C20 happens: the special tool ran and ended a run that was going on.
C20_Witness ==
    /\ last_call.command.name = "terminate"
    /\ last_call.invoked = <<"terminate">>
    /\ last_call.oc = Ok
    /\ last_call.state_before = "RUNNING"
    /\ last_call.state_after = "FINISHED"

\* What json.loads makes of the argument text of the last call.
parsed_args ==
    json_loads(IF last_call.command.arguments = "" THEN "{}"
               ELSE last_call.command.arguments)

\* The last call asked for the file writer with argument text that parses
\* to a mapping; field_absent(f): the mapping has no field f.
file_saver_parsed ==
    /\ last_call.command.name = "file_saver"
    /\ parsed_args.ok
    /\ parsed_args.isdict

field_absent(f) == file_saver_parsed /\ ~Has(parsed_args.dict, f)

\* C21: for the file writer with arguments that parse to a mapping, when
\* the content field or the file_path field is absent, execute_tool returns
\* an error observation "Missing required '<field>' parameter" that names an
\* absent field (content first) and the file_saver tool; the tool is not
\* invoked, no file is written, and the session marker and the agent state
\* are left as they were.
C21_MissingFieldRejected ==
    (field_absent("content") \/ field_absent("file_path")) =>
        /\ ~last_call.raised
        /\ startswith(last_call.observation, "Error: ")
        /\ contains(last_call.observation,
               "Missing required '"
               \o (IF field_absent("content") THEN "content" ELSE "file_path")
               \o "' parameter")
        /\ contains(last_call.observation, "file_saver")
        /\ last_call.invoked = <<>>
        /\ last_call.written = <<>>
        /\ last_call.ts_after = last_call.ts_before
        /\ last_call.state_after = last_call.state_before

\* C21 happens: a call with a path and no content was turned down before
\* any marker existed, and there is still none.
C21_Witness ==
    /\ field_absent("content")
    /\ ~field_absent("file_path")
    /\ contains(last_call.observation, "Missing required 'content' parameter")
    /\ last_call.ts_before = None
    /\ last_call.ts_after = None
    /\ files = <<>>

\* C21 happens for the other field as well: content is there, the path is not.
C21_WitnessPath ==
    /\ field_absent("file_path")
    /\ ~field_absent("content")
    /\ contains(last_call.observation, "Missing required 'file_path' parameter")

\* The last call asked for a registered tool other than the file writer
\* with argument text that does not parse.
other_tool_unparsed ==
    /\ last_call.command.name \in tool_map \ {"file_saver"}
    /\ ~parsed_args.ok

\* C22: the recovery of arguments is for the file writer alone: for every
\* other registered tool, argument text that does not parse gives the
\* parse-error observation at once; nothing is repaired, no tool is invoked,
\* nothing is written, and the agent state and the session marker are left
\* as they were.
C22_RecoveryOnlyForFileWriter ==
    other_tool_unparsed =>
        /\ ~last_call.raised
        /\ last_call.observation
               = "Error: Error parsing arguments for " \o last_call.command.name
                 \o ": Invalid JSON format"
        /\ last_call.invoked = <<>>
        /\ last_call.written = <<>>
        /\ last_call.ts_after = last_call.ts_before
        /\ last_call.state_after = last_call.state_before

\* C22 happens: the text held a path and content that the recovery of the
\* file writer would have extracted, and the call ended in the parse error.
C22_Witness ==
    /\ other_tool_unparsed
    /\ Has(recovered_args, "file_path")
    /\ Has(recovered_args, "content")
    /\ last_call.observation = parse_error(last_call.command.name)
    /\ last_call.state_before = "RUNNING"

\* The last call was a direct call of the file writer.
direct_call == last_call.command.id = "direct"

\* The arguments of the last direct call are turned down by the validation
\* of the file writer: the path is missing or blank, or the mode is neither
\* 'w' nor 'a'.
path_rejected ==
    direct_call /\ (~Has(last_call.args, "file_path") \/ isblank(last_call.args["file_path"]))

mode_rejected == direct_call /\ Get(last_call.args, "mode", "w") \notin {"w", "a"}

\* C23: the session marker is created only by a call of the file writer
\* that passes the validation and reaches the write step: starting a run
\* (reset_session) leaves the marker unset, and a call that is turned down
\* for a missing or blank file_path or for a mode other than 'w' and 'a'
\* returns a string that reports the error, writes no file and leaves the
\* marker as it was.
C23_MarkerOnlyByValidatedWrite ==
    /\ [][resets' # resets => current_session_timestamp' = None]_vars
    /\ [][(current_session_timestamp' # current_session_timestamp
           /\ current_session_timestamp' # None) =>
              /\ last_call' # last_call
              /\ last_call'.command.id = "direct"
              /\ Has(last_call'.args, "file_path")
              /\ ~isblank(last_call'.args["file_path"])
              /\ Get(last_call'.args, "mode", "w") \in {"w", "a"}
              /\ current_session_timestamp' = strftime(clock)]_vars
    /\ []((path_rejected \/ mode_rejected) =>
              /\ contains(last_call.observation, "Error: ")
              /\ last_call.written = <<>>
              /\ last_call.ts_after = last_call.ts_before
              /\ current_session_timestamp = last_call.ts_before
                     \/ last_call.run < resets)

\* C23 happens: a new run has started, a call with a mode that is not
\* allowed was turned down in it, and the marker is still unset although an
\* earlier run wrote a file.
C23_Witness ==
    /\ mode_rejected
    /\ ~path_rejected
    /\ last_call.run = 2
    /\ last_call.ts_before = None
    /\ current_session_timestamp = None
    /\ Len(files) >= 1

\* The last think step of agent 1 got a response and said to act, and the
\* act phase of that step is over.
acted ==
    /\ current_step[1] >= 1
    /\ ~think_result[1].fault
    /\ think_result[1].should_act
    /\ pc[1] # "act"

\* The calls of the last response that stand after a call of a special tool.
after_special ==
    {i \in DOMAIN tool_calls[1] :
        \E j \in 1..(i - 1) : is_special_tool(tool_calls[1][j].name)}

\* C24: within one act phase every proposed call is dispatched and gets its
\* tool-role message, the calls that stand after a call of a special tool
\* included: that call has set the agent state to FINISHED, and act goes on
\* with the calls that are left (a file writer among them writes its file).
C24_CallsAfterSpecialToolDispatched ==
    acted =>
        /\ \A i \in DOMAIN tool_calls[1] :
               /\ Cardinality({k \in tool_messages(messages[1]) :
                                  messages[1][k].tool_call_id = tool_calls[1][i].id}) = 1
               /\ Cardinality({k \in DOMAIN invoked[1] :
                                  invoked[1][k] = [id |-> tool_calls[1][i].id,
                                                   name |-> tool_calls[1][i].name]}) = 1
        /\ Len(messages[1]) >= Len(tool_calls[1])
        /\ \A i \in DOMAIN tool_calls[1] :
               messages[1][Len(messages[1]) - Len(tool_calls[1]) + i].tool_call_id
                   = tool_calls[1][i].id
        /\ after_special # {} => state[1] = "FINISHED"
        /\ Cardinality({k \in DOMAIN invoked[1] : invoked[1][k].name = "file_saver"})
               = Len(files)

\* C24 happens: the first call of the response was the special tool, the
\* second one the file writer, and its file was written in the first step.
C24_Witness ==
    /\ acted
    /\ current_step[1] = 1
    /\ Len(tool_calls[1]) = 2
    /\ tool_calls[1][1].name = "terminate"
    /\ tool_calls[1][2].name = "file_saver"
    /\ after_special = {2}
    /\ state[1] = "FINISHED"
    /\ Len(files) = 1
    /\ messages[1][Len(messages[1])].name = "file_saver"

====
